---- MODULE Spec2Model ----
(* Authentication / authorization core of the class-management backend:     *)
(* the user store, the token issuer and verifier, the express middleware    *)
(* chain (authenticate -> authorize -> handler) and the route handlers of   *)
(* the superadmin, lesson-plan, school and branch routers.                  *)
EXTENDS Integers, Sequences, FiniteSets, TLC

(***************************************************************************)
(* Bounds of the model                                                     *)
(***************************************************************************)
MaxUsers == 2
MaxTokens == 2
MaxTime == 8
MaxPlans == 1

(***************************************************************************)
(* Program constants                                                       *)
(***************************************************************************)
\* expiresIn: '7d', in days
TokenTTL == 7
JWT_SECRET == "server-secret"

ROLES == {"superadmin", "admin", "teacher", "student"}

\* variant: MANAGE_SCHOOLS lists admin alone, as the role-list gates do
PERMISSIONS_adminOnlySchools ==
  [ VIEW_STUDENTS      |-> {"superadmin", "admin", "teacher"},
    CREATE_STUDENTS    |-> {"superadmin", "admin"},
    UPDATE_STUDENTS    |-> {"superadmin", "admin"},
    DELETE_STUDENTS    |-> {"superadmin", "admin"},
    VIEW_TEACHERS      |-> {"superadmin", "admin", "teacher"},
    CREATE_TEACHERS    |-> {"superadmin", "admin"},
    UPDATE_TEACHERS    |-> {"superadmin", "admin"},
    DELETE_TEACHERS    |-> {"superadmin", "admin"},
    VIEW_CLASSES       |-> {"superadmin", "admin", "teacher", "student"},
    CREATE_CLASSES     |-> {"superadmin", "admin"},
    UPDATE_CLASSES     |-> {"superadmin", "admin", "teacher"},
    DELETE_CLASSES     |-> {"superadmin", "admin"},
    VIEW_ENROLLMENTS   |-> {"superadmin", "admin", "teacher", "student"},
    CREATE_ENROLLMENTS |-> {"superadmin", "admin", "teacher"},
    UPDATE_ENROLLMENTS |-> {"superadmin", "admin"},
    DELETE_ENROLLMENTS |-> {"superadmin", "admin", "teacher"},
    VIEW_USERS         |-> {"superadmin", "admin"},
    CREATE_USERS       |-> {"superadmin", "admin"},
    UPDATE_USERS       |-> {"superadmin", "admin"},
    DELETE_USERS       |-> {"superadmin"},
    MANAGE_ADMINS      |-> {"superadmin"},
    CHANGE_ROLES       |-> {"superadmin"},
    VIEW_MESSAGES      |-> {"superadmin", "admin", "teacher", "student"},
    CREATE_MESSAGES    |-> {"superadmin", "admin", "teacher", "student"},
    DELETE_MESSAGES    |-> {"superadmin", "admin"},
    VIEW_ANALYTICS     |-> {"superadmin", "admin", "teacher"},
    VIEW_SCHOOLS       |-> {"superadmin", "admin", "teacher"},
    MANAGE_SCHOOLS     |-> {"admin"},
    VIEW_BRANCHES      |-> {"superadmin", "admin", "teacher"},
    MANAGE_BRANCHES    |-> {"superadmin", "admin"},
    SYSTEM_SETTINGS    |-> {"superadmin"},
    VIEW_LOGS          |-> {"superadmin"},
    MANAGE_SYSTEM      |-> {"superadmin"} ]

PERMISSIONS ==
  [ VIEW_STUDENTS      |-> {"superadmin", "admin", "teacher"},
    CREATE_STUDENTS    |-> {"superadmin", "admin"},
    UPDATE_STUDENTS    |-> {"superadmin", "admin"},
    DELETE_STUDENTS    |-> {"superadmin", "admin"},
    VIEW_TEACHERS      |-> {"superadmin", "admin", "teacher"},
    CREATE_TEACHERS    |-> {"superadmin", "admin"},
    UPDATE_TEACHERS    |-> {"superadmin", "admin"},
    DELETE_TEACHERS    |-> {"superadmin", "admin"},
    VIEW_CLASSES       |-> {"superadmin", "admin", "teacher", "student"},
    CREATE_CLASSES     |-> {"superadmin", "admin"},
    UPDATE_CLASSES     |-> {"superadmin", "admin", "teacher"},
    DELETE_CLASSES     |-> {"superadmin", "admin"},
    VIEW_ENROLLMENTS   |-> {"superadmin", "admin", "teacher", "student"},
    CREATE_ENROLLMENTS |-> {"superadmin", "admin", "teacher"},
    UPDATE_ENROLLMENTS |-> {"superadmin", "admin"},
    DELETE_ENROLLMENTS |-> {"superadmin", "admin", "teacher"},
    VIEW_USERS         |-> {"superadmin", "admin"},
    CREATE_USERS       |-> {"superadmin", "admin"},
    UPDATE_USERS       |-> {"superadmin", "admin"},
    DELETE_USERS       |-> {"superadmin"},
    MANAGE_ADMINS      |-> {"superadmin"},
    CHANGE_ROLES       |-> {"superadmin"},
    VIEW_MESSAGES      |-> {"superadmin", "admin", "teacher", "student"},
    CREATE_MESSAGES    |-> {"superadmin", "admin", "teacher", "student"},
    DELETE_MESSAGES    |-> {"superadmin", "admin"},
    VIEW_ANALYTICS     |-> {"superadmin", "admin", "teacher"},
    VIEW_SCHOOLS       |-> {"superadmin", "admin", "teacher"},
    MANAGE_SCHOOLS     |-> {"superadmin", "admin"},
    VIEW_BRANCHES      |-> {"superadmin", "admin", "teacher"},
    MANAGE_BRANCHES    |-> {"superadmin", "admin"},
    SYSTEM_SETTINGS    |-> {"superadmin"},
    VIEW_LOGS          |-> {"superadmin"},
    MANAGE_SYSTEM      |-> {"superadmin"} ]

\* variant: a name outside the table is allowed
hasPermission_failOpen(userRole, permission) ==
  IF permission \notin DOMAIN PERMISSIONS
    THEN TRUE
    ELSE userRole \in PERMISSIONS[permission]

\* hasPermission(userRole, permission): unknown permission -> false
hasPermission(userRole, permission) ==
  IF permission \notin DOMAIN PERMISSIONS
    THEN FALSE
    ELSE userRole \in PERMISSIONS[permission]

(***************************************************************************)
(* Strings as sequences of characters: email normalisation                 *)
(***************************************************************************)
lowerChar(c) == CASE c = "A" -> "a" [] c = "B" -> "b" [] OTHER -> c

toLowerCase(s) == [i \in DOMAIN s |-> lowerChar(s[i])]

RECURSIVE trimStart(_)
trimStart(s) == IF s # <<>> /\ Head(s) = " " THEN trimStart(Tail(s)) ELSE s

RECURSIVE trimEnd(_)
trimEnd(s) ==
  IF s # <<>> /\ s[Len(s)] = " " THEN trimEnd(SubSeq(s, 1, Len(s) - 1)) ELSE s

trim(s) == trimEnd(trimStart(s))

\* email.toLowerCase().trim()
normalizeEmail(email) == trim(toLowerCase(email))

(***************************************************************************)
(* State                                                                   *)
(***************************************************************************)
VARIABLES
  users,        \* prisma.user: id -> [email, password, role]
  nextUserId,   \* autoincrement of prisma.user
  tokens,       \* tokens issued by /register and /login and still held by clients
  now,          \* wall clock, in days
  lessonPlans,  \* prisma.lessonPlan: id -> [teacherId, status]
  nextPlanId,   \* autoincrement of prisma.lessonPlan
  req,          \* the request being served: position in the middleware chain, context, response
  call,         \* the call in progress through the retry wrapper of the prisma client
  store,        \* prisma.student, prisma.class and prisma.enrollment
  ops           \* the calls and requests in progress side by side, one per client

vars == <<users, nextUserId, tokens, now, lessonPlans, nextPlanId, req, call, store, ops>>
dbVars == <<users, nextUserId, lessonPlans, nextPlanId>>

UserIds == 1..MaxUsers

\* role values a client can put in a request body: the four roles, a string
\* that is no role, and "" for an absent field
InvalidRole == "guest"
BodyRoles == ROLES \cup {InvalidRole, ""}

\* emails a client can send, as character sequences
RawEmails == {<<>>, <<"a">>, <<"A", " ">>, <<"b">>}
Passwords == {"pw", "bad"}

\* bcrypt.hash / bcrypt.compare
hash(password) == <<"bcrypt", password>>
compare(password, hashed) == hashed = hash(password)

NoUser == [id |-> 0, email |-> <<>>, role |-> ""]
NoToken == [userId |-> 0, email |-> <<>>, role |-> "", iat |-> 0, exp |-> 0, secret |-> ""]

\* Authorization headers a client can send
NoHeader == [kind |-> "none", token |-> NoToken]
BasicHeader == [kind |-> "basic", token |-> NoToken]
GarbageBearer == [kind |-> "malformed", token |-> NoToken]
Bearer(t) == [kind |-> "jwt", token |-> t]

\* variant: expiresIn: '1d'
jwtSign_oneDay(userId, email, role, secret, t) ==
  [userId |-> userId, email |-> email, role |-> role, iat |-> t, exp |-> t + 1,
   secret |-> secret]

\* jwt.sign(payload, secret, { expiresIn: '7d' })
jwtSign(userId, email, role, secret, t) ==
  [userId |-> userId, email |-> email, role |-> role, iat |-> t, exp |-> t + TokenTTL,
   secret |-> secret]

\* tokens signed by someone who does not know the server's secret
ForgedTokens ==
  {jwtSign(u, <<"a">>, "superadmin", "attacker-secret", now) : u \in UserIds}

Headers ==
  {NoHeader, BasicHeader, GarbageBearer} \cup {Bearer(t) : t \in tokens \cup ForgedTokens}

\* variant: ignoreExpiration
jwtVerify_noExpiry(h, secret, t) ==
  IF h.kind # "jwt" THEN "JsonWebTokenError"
  ELSE IF h.token.secret # secret THEN "JsonWebTokenError"
  ELSE "ok"

\* jwt.verify(token, secret): the signature is checked before the expiry
jwtVerify(h, secret, t) ==
  IF h.kind # "jwt" THEN "JsonWebTokenError"
  ELSE IF h.token.secret # secret THEN "JsonWebTokenError"
  ELSE IF t >= h.token.exp THEN "TokenExpiredError"
  ELSE "ok"

(***************************************************************************)
(* Routes and their middleware chains                                      *)
(***************************************************************************)
AuthRoutes == {"POST /auth/register", "POST /auth/login"}
SuperadminRoutes ==
  {"PUT /superadmin/users/:id/role", "POST /superadmin/users/:id/promote-admin",
   "POST /superadmin/users/:id/demote", "DELETE /superadmin/users/:id"}
UserListRoutes == {"GET /superadmin/users/all"}
LessonPlanRoutes ==
  {"GET /lesson-plans", "GET /lesson-plans/:id", "POST /lesson-plans",
   "PUT /lesson-plans/:id", "DELETE /lesson-plans/:id"}
SchoolReadRoutes == {"GET /schools", "GET /schools/:id"}
SchoolWriteRoutes == {"POST /schools", "PUT /schools/:id", "DELETE /schools/:id"}
BranchRoutes ==
  {"GET /branches", "GET /branches/school/:schoolId", "GET /branches/:id",
   "POST /branches", "PUT /branches/:id", "DELETE /branches/:id"}

\* authorize(...allowedRoles) instances
requireAdmin == {"admin"}
requireTeacher == {"admin", "teacher"}
requireSuperAdmin == {"superadmin"}
requireStudent == {"admin", "teacher", "student"}
\* authorize('superadmin', 'admin', 'teacher') on GET /superadmin/users/all
requireStaff == {"superadmin", "admin", "teacher"}

\* routes registered as router.METHOD(path, authenticate, <gate>, handler)
GatedRoutes ==
  SuperadminRoutes \cup UserListRoutes \cup LessonPlanRoutes \cup SchoolReadRoutes
    \cup SchoolWriteRoutes

RouteGate(route) ==
  CASE route \in SuperadminRoutes -> requireSuperAdmin
    [] route \in UserListRoutes -> requireStaff
    [] route \in LessonPlanRoutes -> requireTeacher
    [] route \in SchoolReadRoutes -> requireTeacher
    [] route \in SchoolWriteRoutes -> requireAdmin

Routes == AuthRoutes \cup GatedRoutes \cup BranchRoutes

IdleReq ==
  [pc |-> "idle", route |-> "", header |-> NoHeader, user |-> NoUser,
   allowedRoles |-> {}, paramsUserId |-> <<>>, bodyUserId |-> <<>>, result |-> {}, lookups |-> 0, password |-> "",
   status |-> 0, error |-> "", ran |-> <<>>,
   requiredRoles |-> {}, currentRole |-> "", permission |-> "",
   id |-> 0, role |-> "", email |-> <<>>, planStatus |-> "", baseUrl |-> <<>>, token |-> NoToken]

\* res.status(code).json({ error }) without next(): the chain ends
Reply(r, stage, code, err) ==
  [r EXCEPT !.pc = "done", !.status = code, !.error = err, !.ran = Append(r.ran, stage)]

\* next(): control passes to the following function of the chain
Next_(r, stage, pc) == [r EXCEPT !.pc = pc, !.ran = Append(r.ran, stage)]

\* no call through the retry wrapper is in progress
IdleCall ==
  [pc |-> "idle", wrapper |-> "", method |-> "", caller |-> "",
   retryCount |-> 0, invoked |-> 0, cycles |-> 0, error |-> "",
   events |-> <<>>, waits |-> <<>>, result |-> ""]

\* the student and class rows present at the start, no enrollment yet
StudentIds == {1, 2}
EnrolClassIds == {1, 2}
InitStore ==
  [students |-> StudentIds, classIds |-> EnrolClassIds, enrollments |-> {},
   nextEnrollmentId |-> 1]

\* clients whose calls overlap
Procs == {1, 2}
IdleOp ==
  [fn |-> "", pc |-> "idle", studentId |-> 0, classId |-> 0, id |-> 0,
   email |-> <<>>, status |-> 0, error |-> "", token |-> NoToken]

\* prisma.teacher rows (seeded; no teachers route is part of the model)
TeacherIds == {1, 2}
teachers == [t \in TeacherIds |-> [email |-> IF t = 1 THEN <<"a">> ELSE <<"b">>]]

PlanStatuses == {"draft", "published"}

(***************************************************************************)
(* Initial state: an empty database, no request                            *)
(***************************************************************************)
Init ==
  /\ users = <<>>
  /\ nextUserId = 1
  /\ tokens = {}
  /\ now = 0
  /\ lessonPlans = <<>>
  /\ nextPlanId = 1
  /\ req = IdleReq
  /\ call = IdleCall
  /\ store = InitStore
  /\ ops = [p \in Procs |-> IdleOp]

(***************************************************************************)
(* The clock                                                               *)
(***************************************************************************)
\* d days pass
Tick(d) ==
  /\ now + d <= MaxTime
  /\ now' = now + d
  /\ UNCHANGED <<dbVars, tokens, req, call, store, ops>>

(***************************************************************************)
(* express dispatch: a request enters the chain registered for its route   *)
(***************************************************************************)
Receive(route) ==
  /\ req.pc \in {"idle", "done"}
  /\ route = "POST /auth/register" => nextUserId <= MaxUsers
  /\ route = "POST /lesson-plans" => nextPlanId <= MaxPlans
  /\ req' = [IdleReq EXCEPT !.route = route,
                            !.pc = IF route \in GatedRoutes THEN "authenticate" ELSE "handler"]
  /\ UNCHANGED <<dbVars, tokens, now, call, store, ops>>

(***************************************************************************)
(* middleware/auth.js: authenticate                                        *)
(***************************************************************************)
\* variant: every jwt.verify error is answered 'Invalid token'
AuthenticateResult_oneMessage(r, h) ==
  IF h.kind \in {"none", "basic"}
    THEN Reply(r, "authenticate", 401, "Authentication required")
  ELSE LET v == jwtVerify(h, JWT_SECRET, now) IN
    IF v # "ok" THEN Reply(r, "authenticate", 401, "Invalid token")
    ELSE IF h.token.userId \notin DOMAIN users
      THEN Reply(r, "authenticate", 401, "User not found")
    ELSE LET user == users[h.token.userId] IN
      [Next_(r, "authenticate", "authorize") EXCEPT
         !.user = [id |-> h.token.userId, email |-> user.email, role |-> user.role]]

\* variant: the identity is taken from the token's claims
AuthenticateResult_trustToken(r, h) ==
  IF h.kind \in {"none", "basic"}
    THEN Reply(r, "authenticate", 401, "Authentication required")
  ELSE LET v == jwtVerify(h, JWT_SECRET, now) IN
    IF v = "JsonWebTokenError" THEN Reply(r, "authenticate", 401, "Invalid token")
    ELSE IF v = "TokenExpiredError" THEN Reply(r, "authenticate", 401, "Token expired")
    ELSE IF h.token.userId \notin DOMAIN users
      THEN Reply(r, "authenticate", 401, "User not found")
    ELSE [Next_(r, "authenticate", "authorize") EXCEPT
            !.user = [id |-> h.token.userId, email |-> h.token.email, role |-> h.token.role]]

AuthenticateResult(r, h) ==
  IF h.kind \in {"none", "basic"}
    THEN Reply(r, "authenticate", 401, "Authentication required")
  ELSE LET v == jwtVerify(h, JWT_SECRET, now) IN
    IF v = "JsonWebTokenError" THEN Reply(r, "authenticate", 401, "Invalid token")
    ELSE IF v = "TokenExpiredError" THEN Reply(r, "authenticate", 401, "Token expired")
    ELSE IF h.token.userId \notin DOMAIN users
      THEN Reply(r, "authenticate", 401, "User not found")
    ELSE LET user == users[h.token.userId] IN
      [Next_(r, "authenticate", "authorize") EXCEPT
         !.user = [id |-> h.token.userId, email |-> user.email, role |-> user.role]]

Authenticate ==
  /\ req.pc = "authenticate"
  /\ \E h \in Headers :
       req' = AuthenticateResult([req EXCEPT !.header = h], h)
  /\ UNCHANGED <<dbVars, tokens, now, call, store, ops>>

(***************************************************************************)
(* middleware/auth.js: authorize(...allowedRoles)                          *)
(***************************************************************************)
\* variant: the role is not compared with the list
AuthorizeResult_anyRole(r, allowedRoles) ==
  IF r.user = NoUser \/ r.user.role = ""
    THEN Reply(r, "authorize", 401, "Authentication required")
  ELSE Next_(r, "authorize", "handler")

AuthorizeResult(r, allowedRoles) ==
  IF r.user = NoUser \/ r.user.role = ""
    THEN Reply(r, "authorize", 401, "Authentication required")
  ELSE IF r.user.role \notin allowedRoles
    THEN [Reply(r, "authorize", 403, "Access forbidden") EXCEPT
            !.requiredRoles = allowedRoles, !.currentRole = r.user.role]
  ELSE Next_(r, "authorize", "handler")

Authorize ==
  /\ req.pc = "authorize"
  /\ req' = AuthorizeResult(req, RouteGate(req.route))
  /\ UNCHANGED <<dbVars, tokens, now, call, store, ops>>

(***************************************************************************)
(* routes/auth.js: POST /register and POST /login                          *)
(***************************************************************************)
\* a client keeps the token of a response while it holds fewer than MaxTokens
Hold(tok) == IF Cardinality(tokens \cup {tok}) <= MaxTokens THEN tokens \cup {tok} ELSE tokens

findUserByEmail(email) == {u \in DOMAIN users : users[u].email = email}

Register ==
  /\ req.pc = "handler" /\ req.route = "POST /auth/register"
  /\ \E email \in RawEmails, role \in BodyRoles :
       LET r == [req EXCEPT !.email = email, !.role = role]
           normalizedEmail == normalizeEmail(email)
           id == nextUserId
           newRole == IF role = "" THEN "student" ELSE role
           tok == jwtSign(id, normalizedEmail, newRole, JWT_SECRET, now)
       IN
       IF email = <<>>
         THEN /\ req' = Reply(r, "handler", 400, "Email, password, and name are required")
              /\ UNCHANGED <<users, nextUserId, tokens>>
       ELSE IF findUserByEmail(normalizedEmail) # {}
         THEN /\ req' = Reply(r, "handler", 400, "User with this email already exists")
              /\ UNCHANGED <<users, nextUserId, tokens>>
       ELSE /\ users' = [u \in DOMAIN users \cup {id} |->
                           IF u = id
                             THEN [email |-> normalizedEmail, password |-> hash("pw"),
                                   role |-> newRole]
                             ELSE users[u]]
            /\ nextUserId' = nextUserId + 1
            /\ tokens' = Hold(tok)
            /\ req' = [Reply(r, "handler", 201, "") EXCEPT !.token = tok, !.id = id]
  /\ UNCHANGED <<lessonPlans, nextPlanId, now, call, store, ops>>

\* variant: an unknown email is answered 404
loginUnknownEmail_notFound(r) == Reply(r, "handler", 404, "User not found")

\* if (!user): the answer to an email that is not registered
loginUnknownEmail(r) == Reply(r, "handler", 401, "Invalid email or password")

Login ==
  /\ req.pc = "handler" /\ req.route = "POST /auth/login"
  /\ \E email \in RawEmails, password \in Passwords :
       LET r == [req EXCEPT !.email = email, !.password = password]
           normalizedEmail == normalizeEmail(email)
           found == findUserByEmail(normalizedEmail)
       IN
       IF email = <<>>
         THEN /\ req' = Reply(r, "handler", 400, "Email and password are required")
              /\ UNCHANGED tokens
       ELSE IF found = {}
         THEN /\ req' = loginUnknownEmail(r)
              /\ UNCHANGED tokens
       ELSE LET id == CHOOSE u \in found : TRUE
                user == users[id]
                tok == jwtSign(id, user.email, user.role, JWT_SECRET, now)
            IN
            IF ~compare(password, user.password)
              THEN /\ req' = Reply(r, "handler", 401, "Invalid email or password")
                   /\ UNCHANGED tokens
              ELSE /\ req' = [Reply(r, "handler", 200, "") EXCEPT !.token = tok, !.id = id]
                   /\ tokens' = Hold(tok)
  /\ UNCHANGED <<dbVars, now, call, store, ops>>

(***************************************************************************)
(* routes/superadmin.js                                                    *)
(***************************************************************************)
\* ids a client can put in the path: every id ever assigned and one never assigned
PathUserIds == 1..(MaxUsers + 1)

\* prisma.user.update({ where: { id }, data: { role } }); P2025 when the row is missing
updateUserRole(id, role) == [users EXCEPT ![id].role = role]

\* prisma.user.delete({ where: { id } })
deleteUser(id) == [u \in DOMAIN users \ {id} |-> users[u]]

\* variant: no self check
changesOwnRole_never(userId, callerId, role) == FALSE

\* userId === req.userId && role !== 'superadmin'
changesOwnRole(userId, callerId, role) == userId = callerId /\ role # "superadmin"

\* userId === req.userId, in POST /users/:id/demote
demotesSelf(userId, callerId) == userId = callerId

\* userId === req.userId, in DELETE /users/:id
deletesSelf(userId, callerId) == userId = callerId

\* PUT /users/:id/role
ChangeRole ==
  /\ req.pc = "handler" /\ req.route = "PUT /superadmin/users/:id/role"
  /\ \E userId \in PathUserIds, role \in BodyRoles :
       LET r == [req EXCEPT !.id = userId, !.role = role] IN
       IF role \notin {"superadmin", "admin", "teacher", "student"}
         THEN /\ req' = Reply(r, "handler", 400, "Invalid role")
              /\ UNCHANGED users
       ELSE IF changesOwnRole(userId, req.user.id, role)
         THEN /\ req' = Reply(r, "handler", 400, "Cannot change your own role")
              /\ UNCHANGED users
       ELSE IF userId \notin DOMAIN users
         THEN /\ req' = Reply(r, "handler", 404, "User not found")
              /\ UNCHANGED users
       ELSE /\ users' = updateUserRole(userId, role)
            /\ req' = Reply(r, "handler", 200, "")
  /\ UNCHANGED <<nextUserId, lessonPlans, nextPlanId, tokens, now, call, store, ops>>

\* POST /users/:id/promote-admin
PromoteAdmin ==
  /\ req.pc = "handler" /\ req.route = "POST /superadmin/users/:id/promote-admin"
  /\ \E userId \in PathUserIds :
       LET r == [req EXCEPT !.id = userId, !.role = "admin"] IN
       IF userId \notin DOMAIN users
         THEN /\ req' = Reply(r, "handler", 404, "User not found")
              /\ UNCHANGED users
       ELSE /\ users' = updateUserRole(userId, "admin")
            /\ req' = Reply(r, "handler", 200, "")
  /\ UNCHANGED <<nextUserId, lessonPlans, nextPlanId, tokens, now, call, store, ops>>

\* POST /users/:id/demote
Demote ==
  /\ req.pc = "handler" /\ req.route = "POST /superadmin/users/:id/demote"
  /\ \E userId \in PathUserIds, role \in BodyRoles :
       LET r == [req EXCEPT !.id = userId, !.role = role]
           newRole == IF role = "" THEN "student" ELSE role
       IN
       IF newRole \notin {"teacher", "student"}
         THEN /\ req' = Reply(r, "handler", 400, "Invalid role for demotion")
              /\ UNCHANGED users
       ELSE IF demotesSelf(userId, req.user.id)
         THEN /\ req' = Reply(r, "handler", 400, "Cannot demote yourself")
              /\ UNCHANGED users
       ELSE IF userId \notin DOMAIN users
         THEN /\ req' = Reply(r, "handler", 404, "User not found")
              /\ UNCHANGED users
       ELSE /\ users' = updateUserRole(userId, newRole)
            /\ req' = Reply(r, "handler", 200, "")
  /\ UNCHANGED <<nextUserId, lessonPlans, nextPlanId, tokens, now, call, store, ops>>

\* DELETE /users/:id
DeleteUser ==
  /\ req.pc = "handler" /\ req.route = "DELETE /superadmin/users/:id"
  /\ \E userId \in PathUserIds :
       LET r == [req EXCEPT !.id = userId] IN
       IF deletesSelf(userId, req.user.id)
         THEN /\ req' = Reply(r, "handler", 400, "Cannot delete yourself")
              /\ UNCHANGED users
       ELSE IF userId \notin DOMAIN users
         THEN /\ req' = Reply(r, "handler", 404, "User not found")
              /\ UNCHANGED users
       ELSE /\ users' = deleteUser(userId)
            /\ req' = Reply(r, "handler", 200, "")
  /\ UNCHANGED <<nextUserId, lessonPlans, nextPlanId, tokens, now, call, store, ops>>

\* variant: an admin is given the unfiltered list
matchesWhereClause_adminSeesAll(requesterRole, id, user) ==
  CASE requesterRole \in {"superadmin", "admin"} -> TRUE
    [] requesterRole = "teacher" -> user.role = "student"
    [] OTHER -> id = -1

\* the whereClause GET /users/all builds from the requester's role, applied
\* to the row (id, user)
matchesWhereClause(requesterRole, id, user) ==
  CASE requesterRole = "superadmin" -> TRUE
    [] requesterRole = "admin" -> user.role \in {"teacher", "student"}
    [] requesterRole = "teacher" -> user.role = "student"
    [] OTHER -> id = -1

\* GET /superadmin/users/all: res.json(users) with the rows selected
ListUsers ==
  /\ req.pc = "handler" /\ req.route = "GET /superadmin/users/all"
  /\ req' = [Reply(req, "handler", 200, "") EXCEPT
              !.result = {[id |-> u, role |-> users[u].role] :
                            u \in {v \in DOMAIN users :
                                     matchesWhereClause(req.user.role, v, users[v])}}]
  /\ UNCHANGED <<dbVars, tokens, now, call, store, ops>>

(***************************************************************************)
(* routes/lessonPlans.js                                                   *)
(***************************************************************************)
PathPlanIds == 1..(MaxPlans + 1)
\* teacherId of a request body: 0 for an absent field, an existing teacher, a missing one
BodyTeacherIds == {0} \cup TeacherIds \cup {3}

\* variant: no ownership check
notOwnPlan_never(plan, user) == FALSE

\* lessonPlan.teacher.email !== req.user.email
notOwnPlan(plan, user) == teachers[plan.teacherId].email # user.email

deletePlan(id) == [p \in DOMAIN lessonPlans \ {id} |-> lessonPlans[p]]

\* GET /
ListLessonPlans ==
  /\ req.pc = "handler" /\ req.route = "GET /lesson-plans"
  /\ req' = Reply(req, "handler", 200, "")
  /\ UNCHANGED <<dbVars, tokens, now, call, store, ops>>

\* GET /:id
GetLessonPlan ==
  /\ req.pc = "handler" /\ req.route = "GET /lesson-plans/:id"
  /\ \E id \in PathPlanIds :
       LET r == [req EXCEPT !.id = id] IN
       IF id \notin DOMAIN lessonPlans
         THEN req' = Reply(r, "handler", 404, "Lesson plan not found")
       ELSE IF /\ req.user.role = "teacher"
               /\ lessonPlans[id].teacherId # req.user.id
               /\ notOwnPlan(lessonPlans[id], req.user)
         THEN req' = Reply(r, "handler", 403, "Access forbidden: You can only view your own lesson plans")
       ELSE req' = Reply(r, "handler", 200, "")
  /\ UNCHANGED <<dbVars, tokens, now, call, store, ops>>

\* POST /
CreateLessonPlan ==
  /\ req.pc = "handler" /\ req.route = "POST /lesson-plans"
  /\ \E teacherId \in BodyTeacherIds :
       LET r == [req EXCEPT !.id = teacherId] IN
       IF req.user.role = "teacher" /\ teacherId = 0
         THEN /\ req' = Reply(r, "handler", 400, "Teacher ID is required")
              /\ UNCHANGED <<lessonPlans, nextPlanId>>
       ELSE IF teacherId = 0
         THEN /\ req' = Reply(r, "handler", 500, "Title and teacher ID are required")
              /\ UNCHANGED <<lessonPlans, nextPlanId>>
       ELSE IF teacherId \notin TeacherIds
         THEN /\ req' = Reply(r, "handler", 500, "Foreign key constraint failed")
              /\ UNCHANGED <<lessonPlans, nextPlanId>>
       ELSE /\ lessonPlans' = [p \in DOMAIN lessonPlans \cup {nextPlanId} |->
                                 IF p = nextPlanId
                                   THEN [teacherId |-> teacherId, status |-> "draft"]
                                   ELSE lessonPlans[p]]
            /\ nextPlanId' = nextPlanId + 1
            /\ req' = Reply(r, "handler", 201, "")
  /\ UNCHANGED <<users, nextUserId, tokens, now, call, store, ops>>

\* PUT /:id
UpdateLessonPlan ==
  /\ req.pc = "handler" /\ req.route = "PUT /lesson-plans/:id"
  /\ \E id \in PathPlanIds, status \in PlanStatuses :
       LET r == [req EXCEPT !.id = id, !.planStatus = status] IN
       IF id \notin DOMAIN lessonPlans
         THEN /\ req' = Reply(r, "handler", 404, "Lesson plan not found")
              /\ UNCHANGED lessonPlans
       ELSE IF req.user.role = "teacher" /\ notOwnPlan(lessonPlans[id], req.user)
         THEN /\ req' = Reply(r, "handler", 403, "Access forbidden: You can only update your own lesson plans")
              /\ UNCHANGED lessonPlans
       ELSE /\ lessonPlans' = [lessonPlans EXCEPT ![id].status = status]
            /\ req' = Reply(r, "handler", 200, "")
  /\ UNCHANGED <<users, nextUserId, nextPlanId, tokens, now, call, store, ops>>

\* DELETE /:id
DeleteLessonPlan ==
  /\ req.pc = "handler" /\ req.route = "DELETE /lesson-plans/:id"
  /\ \E id \in PathPlanIds :
       LET r == [req EXCEPT !.id = id] IN
       IF id \notin DOMAIN lessonPlans
         THEN /\ req' = Reply(r, "handler", 404, "Lesson plan not found")
              /\ UNCHANGED lessonPlans
       ELSE IF req.user.role = "teacher" /\ notOwnPlan(lessonPlans[id], req.user)
         THEN /\ req' = Reply(r, "handler", 403, "Access forbidden: You can only delete your own lesson plans")
              /\ UNCHANGED lessonPlans
       ELSE /\ lessonPlans' = deletePlan(id)
            /\ req' = Reply(r, "handler", 200, "")
  /\ UNCHANGED <<users, nextUserId, nextPlanId, tokens, now, call, store, ops>>

(***************************************************************************)
(* routes/schools.js and routes/branches.js: the handlers call the storage *)
(* layer; the rows of these two tables are not part of the model           *)
(***************************************************************************)
SchoolsHandler ==
  /\ req.pc = "handler" /\ req.route \in SchoolReadRoutes \cup SchoolWriteRoutes
  /\ req' = Reply(req, "handler", 200, "")
  /\ UNCHANGED <<dbVars, tokens, now, call, store, ops>>

BranchesHandler ==
  /\ req.pc = "handler" /\ req.route \in BranchRoutes
  /\ req' = Reply(req, "handler", 200, "")
  /\ UNCHANGED <<dbVars, tokens, now, call, store, ops>>

(***************************************************************************)
(* Specification                                                           *)
(***************************************************************************)
\* more than a token lifetime passes between two requests
Later == \E d \in {TokenTTL + 1} : Tick(d)

\* the account routes: /auth and /superadmin
UserRoutes == AuthRoutes \cup SuperadminRoutes \cup UserListRoutes

Next ==
  \/ Later
  \/ \E route \in UserRoutes : Receive(route)
  \/ Authenticate
  \/ Authorize
  \/ Register
  \/ Login
  \/ ChangeRole
  \/ PromoteAdmin
  \/ Demote
  \/ DeleteUser
  \/ ListUsers

Spec == Init /\ [][Next]_vars

\* the resource routes: /lesson-plans, /schools and /branches, with /auth to sign in
ResourceRoutes ==
  AuthRoutes \cup LessonPlanRoutes \cup SchoolReadRoutes \cup SchoolWriteRoutes \cup BranchRoutes

NextPlans ==
  \/ Later
  \/ \E route \in ResourceRoutes : Receive(route)
  \/ Authenticate
  \/ Authorize
  \/ Register
  \/ Login
  \/ ListLessonPlans
  \/ GetLessonPlan
  \/ CreateLessonPlan
  \/ UpdateLessonPlan
  \/ DeleteLessonPlan
  \/ SchoolsHandler
  \/ BranchesHandler

SpecPlans == Init /\ [][NextPlans]_vars

\* the life of a token, day by day
TokenRoutes == AuthRoutes \cup {"GET /schools"}

NextToken ==
  \/ \E d \in {1} : Tick(d)
  \/ \E route \in TokenRoutes : Receive(route)
  \/ Authenticate
  \/ Authorize
  \/ Register
  \/ Login
  \/ SchoolsHandler

SpecToken == Init /\ [][NextToken]_vars

(***************************************************************************)
(* The gates as functions of the request context                           *)
(***************************************************************************)
\* request contexts a gate can be handed: no identity attached, or the
\* identity of a user with any stored role
Callers ==
  {NoUser} \cup {[id |-> 1, email |-> <<"a">>, role |-> r] : r \in ROLES \cup {InvalidRole}}

\* names a route can pass to requirePermission: the table's keys and two strings
\* that are no key
PermissionInputs == DOMAIN PERMISSIONS \cup {"VIEW_GRADES", "DELETE_EVERYTHING"}

\* variant: the 403 body names the permission alone
requirePermissionResult_noCurrentRole(r, permission) ==
  IF r.user = NoUser \/ r.user.role = ""
    THEN Reply(r, "requirePermission", 401, "Authentication required")
  ELSE IF ~hasPermission(r.user.role, permission)
    THEN [Reply(r, "requirePermission", 403, "Access forbidden") EXCEPT
            !.permission = permission]
  ELSE Next_(r, "requirePermission", "handler")

\* middleware/roleCheck.js: requirePermission(permission)
requirePermissionResult(r, permission) ==
  IF r.user = NoUser \/ r.user.role = ""
    THEN Reply(r, "requirePermission", 401, "Authentication required")
  ELSE IF ~hasPermission(r.user.role, permission)
    THEN [Reply(r, "requirePermission", 403, "Access forbidden") EXCEPT
            !.permission = permission, !.currentRole = r.user.role]
  ELSE Next_(r, "requirePermission", "handler")

RequirePermission ==
  \E user \in Callers, permission \in PermissionInputs :
    /\ req' = requirePermissionResult(
                [IdleReq EXCEPT !.route = "requirePermission", !.user = user,
                                !.permission = permission],
                permission)
    /\ UNCHANGED <<dbVars, tokens, now, call, store, ops>>

\* prisma.class rows (seeded): class c is taught by teacher c
ClassIds == {1, 2}
classes == [c \in ClassIds |-> [teacherId |-> c]]

\* req.baseUrl as path segments, and req.params.id (3: no such class)
BaseUrls == {<<"api", "classes">>, <<"api", "students">>}
PathClassIds == ClassIds \cup {3}

\* variant: the request is not tested for an attached identity
canManageResourceResult_noIdentityTest(r, baseUrl, resourceId) ==
  IF r.user.role = "admin"
    THEN Next_(r, "canManageResource", "handler")
  ELSE IF r.user.role = "teacher"
    THEN LET resourceType == baseUrl[Len(baseUrl)] IN
         IF /\ resourceType = "classes"
            /\ resourceId \in DOMAIN classes
            /\ classes[resourceId].teacherId = r.user.id
           THEN Next_(r, "canManageResource", "handler")
           ELSE Reply(r, "canManageResource", 403, "Access forbidden")
  ELSE Reply(r, "canManageResource", 403, "Access forbidden")

\* middleware/auth.js: canManageResource
canManageResourceResult(r, baseUrl, resourceId) ==
  IF r.user = NoUser
    THEN Reply(r, "canManageResource", 401, "Authentication required")
  ELSE IF r.user.role = "admin"
    THEN Next_(r, "canManageResource", "handler")
  ELSE IF r.user.role = "teacher"
    THEN LET resourceType == baseUrl[Len(baseUrl)] IN
         IF /\ resourceType = "classes"
            /\ resourceId \in DOMAIN classes
            /\ classes[resourceId].teacherId = r.user.id
           THEN Next_(r, "canManageResource", "handler")
           ELSE Reply(r, "canManageResource", 403, "Access forbidden")
  ELSE Reply(r, "canManageResource", 403, "Access forbidden")

CanManageResource ==
  \E user \in Callers, baseUrl \in BaseUrls, resourceId \in PathClassIds :
    /\ req' = canManageResourceResult(
                [IdleReq EXCEPT !.route = "canManageResource", !.user = user,
                                !.baseUrl = baseUrl, !.id = resourceId],
                baseUrl, resourceId)
    /\ UNCHANGED <<dbVars, tokens, now, call, store, ops>>

\* the role lists authorize is instantiated with
AllowedRoleLists == {requireAdmin, requireTeacher, requireStudent, requireSuperAdmin, requireStaff}

\* authorize(...allowedRoles) handed a request context
AuthorizeGate ==
  \E user \in Callers, allowedRoles \in AllowedRoleLists :
    /\ req' = AuthorizeResult(
                [IdleReq EXCEPT !.route = "authorize", !.user = user,
                                !.allowedRoles = allowedRoles],
                allowedRoles)
    /\ UNCHANGED <<dbVars, tokens, now, call, store, ops>>

\* parseInt(string): the leading decimal digits, NaN when there are none
Digits == {"0", "1", "2", "3"}
digitValue(c) == CASE c = "0" -> 0 [] c = "1" -> 1 [] c = "2" -> 2 [] c = "3" -> 3
NaN == -1
RECURSIVE parseDigits(_, _)
parseDigits(s, acc) ==
  IF s = <<>> \/ Head(s) \notin Digits
    THEN acc
    ELSE parseDigits(Tail(s), 10 * acc + digitValue(Head(s)))
parseInt(s) == IF s = <<>> \/ Head(s) \notin Digits THEN NaN ELSE parseDigits(s, 0)

\* req.params[userIdField] and req.body[userIdField] as strings; <<>>: not supplied
OwnerIdInputs == {<<>>, <<"1">>, <<"2">>, <<"0", "1">>, <<"1", "x">>, <<"x">>}

\* variant: the body field is read before the path parameter
authorizeOwnerOrAdminResult_bodyFirst(r, paramsUserId, bodyUserId) ==
  IF r.user = NoUser
    THEN Reply(r, "authorizeOwnerOrAdmin", 401, "Authentication required")
  ELSE LET resourceUserId == IF bodyUserId # <<>> THEN bodyUserId ELSE paramsUserId
           isOwner == resourceUserId # <<>> /\ parseInt(resourceUserId) = r.user.id
           isAdmin == r.user.role = "admin"
       IN IF ~isOwner /\ ~isAdmin
            THEN Reply(r, "authorizeOwnerOrAdmin", 403, "Access forbidden")
            ELSE Next_(r, "authorizeOwnerOrAdmin", "handler")

\* middleware/auth.js: authorizeOwnerOrAdmin(userIdField)
authorizeOwnerOrAdminResult(r, paramsUserId, bodyUserId) ==
  IF r.user = NoUser
    THEN Reply(r, "authorizeOwnerOrAdmin", 401, "Authentication required")
  ELSE LET resourceUserId == IF paramsUserId # <<>> THEN paramsUserId ELSE bodyUserId
           isOwner == resourceUserId # <<>> /\ parseInt(resourceUserId) = r.user.id
           isAdmin == r.user.role = "admin"
       IN IF ~isOwner /\ ~isAdmin
            THEN Reply(r, "authorizeOwnerOrAdmin", 403, "Access forbidden")
            ELSE Next_(r, "authorizeOwnerOrAdmin", "handler")

AuthorizeOwnerOrAdmin ==
  \E user \in Callers, paramsUserId \in OwnerIdInputs, bodyUserId \in OwnerIdInputs :
    /\ req' = authorizeOwnerOrAdminResult(
                [IdleReq EXCEPT !.route = "authorizeOwnerOrAdmin", !.user = user,
                                !.paramsUserId = paramsUserId, !.bodyUserId = bodyUserId],
                paramsUserId, bodyUserId)
    /\ UNCHANGED <<dbVars, tokens, now, call, store, ops>>

NextGates ==
  \/ RequirePermission
  \/ CanManageResource
  \/ AuthorizeGate
  \/ AuthorizeOwnerOrAdmin

SpecGates == Init /\ [][NextGates]_vars

(***************************************************************************)
(* lib/prisma.js: createPrismaWithRetry                                    *)
(***************************************************************************)
maxRetries == 3

\* the two copies of the wrapper, and the two kinds of method they wrap
Wrappers == {"part_001", "part_002"}
Methods == {"model", "$"}

\* what the client raises: 42P05 prepared statement, 10093 socket, P1001
\* can't reach the server, 10054 connection reset, P2024 (its message speaks
\* of the 'connection' pool), P2025 record not found
ClientErrors == {"42P05", "10093", "P1001", "10054", "P2024", "P2025"}

\* isPreparedStatementError || isSocketError || isConnectionError || isConnectionReset
isRetryable(wrapper, method, error) ==
  \/ error \in {"42P05", "10093", "P1001"}
  \/ error = "10054" /\ wrapper = "part_001"
  \/ error = "P2024" /\ method = "model"

\* variant: one more retry is granted
mayRetry_oneMore(retryCount) == retryCount < maxRetries

\* retryCount < maxRetries - 1
mayRetry(retryCount) == retryCount < maxRetries - 1

\* let retryCount = 0; while (retryCount < maxRetries) { ... }
StartCall(wrapper, method, caller) ==
  [IdleCall EXCEPT !.pc = "invoke", !.wrapper = wrapper, !.method = method,
                   !.caller = caller]

\* variant: while (retryCount < maxRetries - 1)
Loop_stopsEarly(c) ==
  IF c.retryCount < maxRetries - 1
    THEN [c EXCEPT !.pc = "invoke"]
    ELSE [c EXCEPT !.pc = "returned", !.result = "undefined"]

\* the top of the while loop; leaving it resolves the call with undefined
Loop(c) ==
  IF c.retryCount < maxRetries
    THEN [c EXCEPT !.pc = "invoke"]
    ELSE [c EXCEPT !.pc = "returned", !.result = "undefined"]

\* 1000 * retryCount (500 * retryCount in the older copy), in ms
backoffUnit == 1000
backoffUnitOld == 500
backoffDelay(wrapper, retryCount) ==
  (IF wrapper = "part_001" THEN backoffUnit ELSE backoffUnitOld) * retryCount

\* variant: a failed reconnection never ends the call
afterReconnectFailure_goesOn(c) == Loop(c)

\* catch (retryError): the error is thrown (wrapped, in part_001) once the
\* retries are used up; otherwise the loop goes on
afterReconnectFailure(c) ==
  IF c.retryCount >= maxRetries - 1
    THEN [c EXCEPT !.pc = "thrown",
                   !.result = IF c.wrapper = "part_001" THEN "enhanced" ELSE "original"]
    ELSE Loop(c)

\* a caller outside the gates (a handler, a script) calls a wrapped method
WrapperCall ==
  /\ req.pc \in {"idle", "done"}
  /\ call.pc = "idle"
  /\ \E wrapper \in Wrappers, method \in Methods :
       call' = StartCall(wrapper, method, "direct")
  /\ UNCHANGED <<dbVars, tokens, now, req, store, ops>>

\* the caller's await settles: the value is returned or the error thrown
Settle ==
  /\ call.caller = "direct"
  /\ call.pc \in {"returned", "thrown"}
  /\ call' = IdleCall
  /\ UNCHANGED <<dbVars, tokens, now, req, store, ops>>

\* try { return await value.apply(target, args) } catch (error) { ... }
Invoke ==
  /\ call.pc = "invoke"
  /\ \E outcome \in {"ok"} \cup ClientErrors :
       LET c == [call EXCEPT !.invoked = @ + 1, !.events = <<>>] IN
       call' = IF outcome = "ok"
                 THEN [c EXCEPT !.pc = "returned", !.result = "value"]
               ELSE IF isRetryable(c.wrapper, c.method, outcome) /\ mayRetry(c.retryCount)
                 THEN [c EXCEPT !.retryCount = @ + 1, !.pc = "disconnect", !.error = outcome]
               ELSE [c EXCEPT !.pc = "thrown", !.error = outcome, !.result = "original"]
  /\ UNCHANGED <<dbVars, tokens, now, req, store, ops>>

\* await target.$disconnect().catch(() => {}): a failure is ignored
Disconnect ==
  /\ call.pc = "disconnect"
  /\ \E disconnected \in BOOLEAN :
       call' = [call EXCEPT !.pc = "backoff", !.cycles = @ + 1,
                  !.events = Append(@, IF disconnected THEN "disconnect"
                                                       ELSE "disconnectFailed")]
  /\ UNCHANGED <<dbVars, tokens, now, req, store, ops>>

\* await new Promise(resolve => setTimeout(resolve, backoffDelay))
Backoff ==
  /\ call.pc = "backoff"
  /\ call' = [call EXCEPT !.pc = "connect",
                 !.waits = Append(@, backoffDelay(call.wrapper, call.retryCount)),
                 !.events = Append(@, "wait")]
  /\ UNCHANGED <<dbVars, tokens, now, req, store, ops>>

\* await target.$connect(); continue, or the catch (retryError) block
Connect ==
  /\ call.pc = "connect"
  /\ \E connected \in BOOLEAN :
       call' = IF connected
                 THEN Loop([call EXCEPT !.events = Append(@, "connect")])
                 ELSE afterReconnectFailure([call EXCEPT !.events = Append(@, "connectFailed")])
  /\ UNCHANGED <<dbVars, tokens, now, req, store, ops>>

\* variant: a failed lookup sends the request through the gate again
authenticateCatch_again(r) == [r EXCEPT !.pc = "authenticate"]

\* the catch block of authenticate for an error that is no jwt error
authenticateCatch(r) == Reply(r, "authenticate", 500, "Authentication failed")

\* authenticate up to `await prisma.user.findUnique(...)`
AuthenticateStart ==
  /\ req.pc = "authenticate"
  /\ call.pc = "idle"
  /\ \E h \in Headers, wrapper \in Wrappers :
       IF h.kind \in {"none", "basic"} \/ jwtVerify(h, JWT_SECRET, now) # "ok"
         THEN /\ req' = AuthenticateResult([req EXCEPT !.header = h], h)
              /\ UNCHANGED call
         ELSE /\ req' = [req EXCEPT !.header = h, !.pc = "lookup", !.lookups = @ + 1]
              /\ call' = StartCall(wrapper, "model", "authenticate")
  /\ UNCHANGED <<dbVars, tokens, now, store, ops>>

\* authenticate from the result of the lookup on
AuthenticateFinish ==
  /\ req.pc = "lookup" /\ req.route \in GatedRoutes
  /\ call.pc \in {"returned", "thrown"}
  /\ req' = IF call.pc = "returned"
              THEN AuthenticateResult(req, req.header)
              ELSE authenticateCatch(req)
  /\ call' = IdleCall
  /\ UNCHANGED <<dbVars, tokens, now, store, ops>>

\* canManageResource up to `await prisma.class.findUnique(...)`
CanManageResourceStart ==
  /\ req.pc \in {"idle", "done"}
  /\ call.pc = "idle"
  /\ \E user \in Callers, baseUrl \in BaseUrls, resourceId \in PathClassIds,
        wrapper \in Wrappers :
       LET r == [IdleReq EXCEPT !.route = "canManageResource", !.user = user,
                                !.baseUrl = baseUrl, !.id = resourceId] IN
       IF user.role = "teacher" /\ baseUrl[Len(baseUrl)] = "classes"
         THEN /\ req' = [r EXCEPT !.pc = "lookup", !.lookups = 1]
              /\ call' = StartCall(wrapper, "model", "canManageResource")
         ELSE /\ req' = canManageResourceResult(r, baseUrl, resourceId)
              /\ UNCHANGED call
  /\ UNCHANGED <<dbVars, tokens, now, store, ops>>

\* canManageResource from the result of the lookup on; the function has no
\* try/catch, so a rejected lookup leaves the request without an answer
CanManageResourceFinish ==
  /\ req.pc = "lookup" /\ req.route = "canManageResource"
  /\ call.pc \in {"returned", "thrown"}
  /\ req' = IF call.pc = "returned"
              THEN canManageResourceResult(req, req.baseUrl, req.id)
              ELSE [req EXCEPT !.pc = "done", !.error = "unhandled rejection",
                               !.ran = Append(req.ran, "canManageResource")]
  /\ call' = IdleCall
  /\ UNCHANGED <<dbVars, tokens, now, store, ops>>

\* requests whose gates reach the database through the wrapper
RetryRoutes == AuthRoutes \cup {"GET /schools"}

NextRetry ==
  \/ \E route \in RetryRoutes : Receive(route)
  \/ Register
  \/ Login
  \/ AuthenticateStart
  \/ AuthenticateFinish
  \/ Authorize
  \/ SchoolsHandler
  \/ CanManageResourceStart
  \/ CanManageResourceFinish
  \/ WrapperCall
  \/ Settle
  \/ Invoke
  \/ Disconnect
  \/ Backoff
  \/ Connect

SpecRetry == Init /\ [][NextRetry]_vars

\* the wrapper alone, every awaited promise settling
NextWrapper ==
  \/ WrapperCall
  \/ Settle
  \/ Invoke
  \/ Disconnect
  \/ Backoff
  \/ Connect

SpecWrapper ==
  /\ Init /\ [][NextWrapper]_vars
  /\ WF_vars(Invoke) /\ WF_vars(Disconnect) /\ WF_vars(Backoff) /\ WF_vars(Connect)

(***************************************************************************)
(* Overlapping requests: POST /register                                    *)
(***************************************************************************)
\* an op that has answered
DoneOp(fn, status, error) ==
  [IdleOp EXCEPT !.fn = fn, !.pc = "done", !.status = status, !.error = error]

\* variant: the email column carries no unique constraint
userCreateError_noConstraint(email) == ""

\* prisma.user.create: P2002 when the email is already stored
userCreateError(email) == IF findUserByEmail(email) # {} THEN "P2002" ELSE ""

\* POST /register up to the answer of prisma.user.findUnique({ where: { email } })
RegisterFind(p) ==
  /\ ops[p].pc \in {"idle", "done"}
  /\ \E email \in RawEmails :
       LET normalizedEmail == normalizeEmail(email) IN
       ops' = [ops EXCEPT ![p] =
                 IF email = <<>>
                   THEN DoneOp("register", 400, "Email, password, and name are required")
                 ELSE IF findUserByEmail(normalizedEmail) # {}
                   THEN [DoneOp("register", 400, "User with this email already exists")
                           EXCEPT !.email = email]
                 ELSE [IdleOp EXCEPT !.fn = "register", !.pc = "create", !.email = email]]
  /\ UNCHANGED <<dbVars, tokens, now, req, call, store>>

\* POST /register from prisma.user.create on
RegisterCreate(p) ==
  /\ ops[p].fn = "register" /\ ops[p].pc = "create"
  /\ nextUserId <= MaxUsers
  /\ LET normalizedEmail == normalizeEmail(ops[p].email)
         id == nextUserId
         tok == jwtSign(id, normalizedEmail, "student", JWT_SECRET, now)
     IN
     IF userCreateError(normalizedEmail) = "P2002"
       THEN /\ ops' = [ops EXCEPT ![p] =
                         [DoneOp("register", 400, "Email already exists")
                            EXCEPT !.email = ops[p].email]]
            /\ UNCHANGED <<users, nextUserId, tokens>>
       ELSE /\ users' = [u \in DOMAIN users \cup {id} |->
                           IF u = id
                             THEN [email |-> normalizedEmail, password |-> hash("pw"),
                                   role |-> "student"]
                             ELSE users[u]]
            /\ nextUserId' = nextUserId + 1
            /\ tokens' = Hold(tok)
            /\ ops' = [ops EXCEPT ![p] =
                         [DoneOp("register", 201, "")
                            EXCEPT !.email = ops[p].email, !.token = tok, !.id = id]]
  /\ UNCHANGED <<lessonPlans, nextPlanId, now, req, call, store>>

NextRegister ==
  \/ \E p \in Procs : RegisterFind(p)
  \/ \E p \in Procs : RegisterCreate(p)

SpecRegister == Init /\ [][NextRegister]_vars

(***************************************************************************)
(* data/storage.js: enrollments, students and classes, calls overlapping   *)
(***************************************************************************)
MaxEnrollments == 2

\* ids a caller can name: the rows of the start and one that never existed
NamedStudentIds == StudentIds \cup {3}
NamedClassIds == EnrolClassIds \cup {3}
NamedEnrollmentIds == 1..(MaxEnrollments + 1)

enrollmentsOf(st, studentId, classId) ==
  {e \in st.enrollments : e.studentId = studentId /\ e.classId = classId}

\* variant: no unique constraint on (studentId, classId)
enrollmentCreateError_noUnique(st, studentId, classId) ==
  IF studentId \notin st.students \/ classId \notin st.classIds THEN "P2003"
  ELSE ""

\* prisma.enrollment.create: the foreign keys and the unique constraint
enrollmentCreateError(st, studentId, classId) ==
  IF studentId \notin st.students \/ classId \notin st.classIds THEN "P2003"
  ELSE IF enrollmentsOf(st, studentId, classId) # {} THEN "P2002"
  ELSE ""

\* the call has thrown
Thrown(fn, error) == [IdleOp EXCEPT !.fn = fn, !.pc = "done", !.error = error]
Returned(fn) == [IdleOp EXCEPT !.fn = fn, !.pc = "done"]

\* addEnrollment up to the answer of getStudentById
AddEnrollmentGetStudent(p) ==
  /\ ops[p].pc \in {"idle", "done"}
  /\ store.nextEnrollmentId <= MaxEnrollments
  /\ \E studentId \in NamedStudentIds, classId \in NamedClassIds :
       ops' = [ops EXCEPT ![p] =
                 IF studentId \notin store.students
                   THEN Thrown("addEnrollment", "Student not found")
                   ELSE [IdleOp EXCEPT !.fn = "addEnrollment", !.pc = "getClass",
                                       !.studentId = studentId, !.classId = classId]]
  /\ UNCHANGED <<dbVars, tokens, now, req, call, store>>

\* addEnrollment: the answer of getClassById
AddEnrollmentGetClass(p) ==
  /\ ops[p].fn = "addEnrollment" /\ ops[p].pc = "getClass"
  /\ ops' = [ops EXCEPT ![p] =
               IF ops[p].classId \notin store.classIds
                 THEN Thrown("addEnrollment", "Class not found")
                 ELSE [ops[p] EXCEPT !.pc = "create"]]
  /\ UNCHANGED <<dbVars, tokens, now, req, call, store>>

\* addEnrollment: prisma.enrollment.create and its catch
AddEnrollmentCreate(p) ==
  /\ ops[p].fn = "addEnrollment" /\ ops[p].pc = "create"
  /\ store.nextEnrollmentId <= MaxEnrollments
  /\ LET studentId == ops[p].studentId
         classId == ops[p].classId
         error == enrollmentCreateError(store, studentId, classId)
     IN
     IF error = "P2002"
       THEN /\ ops' = [ops EXCEPT ![p] =
                         Thrown("addEnrollment", "Student is already enrolled in this class")]
            /\ UNCHANGED store
     ELSE IF error # ""
       THEN /\ ops' = [ops EXCEPT ![p] = Thrown("addEnrollment", error)]
            /\ UNCHANGED store
     ELSE /\ store' = [store EXCEPT
                         !.enrollments = @ \cup {[id |-> store.nextEnrollmentId,
                                                  studentId |-> studentId,
                                                  classId |-> classId]},
                         !.nextEnrollmentId = @ + 1]
          /\ ops' = [ops EXCEPT ![p] =
                       [Returned("addEnrollment") EXCEPT !.id = store.nextEnrollmentId]]
  /\ UNCHANGED <<dbVars, tokens, now, req, call>>

\* prisma.enrollment.delete({ where: { id } }): P2025 when there is no such row
deleteEnrollmentRow(st, id) ==
  [st EXCEPT !.enrollments = {e \in @ : e.id # id}]

\* deleteEnrollment(id)
DeleteEnrollment ==
  /\ \E id \in NamedEnrollmentIds : store' = deleteEnrollmentRow(store, id)
  /\ UNCHANGED <<dbVars, tokens, now, req, call, ops>>

\* deleteEnrollmentByStudentAndClass up to the answer of findFirst
DeleteEnrollmentByStudentAndClassFind(p) ==
  /\ ops[p].pc \in {"idle", "done"}
  /\ \E studentId \in NamedStudentIds, classId \in NamedClassIds :
       LET found == enrollmentsOf(store, studentId, classId) IN
       IF found = {}
         THEN ops' = [ops EXCEPT ![p] = Returned("deleteEnrollmentByStudentAndClass")]
         ELSE \E enrollment \in found :
                ops' = [ops EXCEPT ![p] =
                          [IdleOp EXCEPT !.fn = "deleteEnrollmentByStudentAndClass",
                                         !.pc = "delete", !.id = enrollment.id]]
  /\ UNCHANGED <<dbVars, tokens, now, req, call, store>>

\* deleteEnrollmentByStudentAndClass: prisma.enrollment.delete of the row found
DeleteEnrollmentByStudentAndClassDelete(p) ==
  /\ ops[p].fn = "deleteEnrollmentByStudentAndClass" /\ ops[p].pc = "delete"
  /\ store' = deleteEnrollmentRow(store, ops[p].id)
  /\ ops' = [ops EXCEPT ![p] =
               IF \E e \in store.enrollments : e.id = ops[p].id
                 THEN Returned("deleteEnrollmentByStudentAndClass")
                 ELSE Thrown("deleteEnrollmentByStudentAndClass", "P2025")]
  /\ UNCHANGED <<dbVars, tokens, now, req, call>>

\* prisma.student.delete with onDelete: Cascade on the enrollments
deleteStudentRow(st, id) ==
  [st EXCEPT !.students = @ \ {id},
             !.enrollments = {e \in @ : e.studentId # id}]

\* prisma.class.delete with onDelete: Cascade on the enrollments
deleteClassRow(st, id) ==
  [st EXCEPT !.classIds = @ \ {id},
             !.enrollments = {e \in @ : e.classId # id}]

\* deleteStudent(id)
DeleteStudent ==
  /\ \E id \in NamedStudentIds : store' = deleteStudentRow(store, id)
  /\ UNCHANGED <<dbVars, tokens, now, req, call, ops>>

\* deleteClass(id)
DeleteClass ==
  /\ \E id \in NamedClassIds : store' = deleteClassRow(store, id)
  /\ UNCHANGED <<dbVars, tokens, now, req, call, ops>>

NextEnroll ==
  \/ \E p \in Procs : AddEnrollmentGetStudent(p)
  \/ \E p \in Procs : AddEnrollmentGetClass(p)
  \/ \E p \in Procs : AddEnrollmentCreate(p)
  \/ DeleteEnrollment
  \/ \E p \in Procs : DeleteEnrollmentByStudentAndClassFind(p)
  \/ \E p \in Procs : DeleteEnrollmentByStudentAndClassDelete(p)
  \/ DeleteStudent
  \/ DeleteClass

SpecEnroll == Init /\ [][NextEnroll]_vars

(***************************************************************************)
(* Properties                                                              *)
(***************************************************************************)

HandlerDone == req.pc = "done" /\ req.ran = <<"authenticate", "authorize", "handler">>

\* the request targets the caller's own account
SelfTarget == HandlerDone /\ req.id = req.user.id

CallerStillSuperadmin ==
  req.user.id \in DOMAIN users /\ users[req.user.id].role = "superadmin"

C3_SelfTargetRejected ==
  (SelfTarget /\ req.route \in SuperadminRoutes) =>
    (req.status = 400 /\ CallerStillSuperadmin)

\* C4: the role attached by authenticate, and the role the gate decides on, is
\* the role stored in the user record when the request is authenticated, not
\* the role claim of the token.
C4_RoleFromStore ==
  /\ (req.route \in GatedRoutes /\ req.pc \in {"authorize", "handler"}) =>
       /\ req.user.id = req.header.token.userId
       /\ req.user.id \in DOMAIN users
       /\ req.user.role = users[req.user.id].role
  /\ (req.route \in GatedRoutes /\ req.pc = "handler") =>
       users[req.user.id].role \in RouteGate(req.route)
  /\ (req.pc = "done" /\ req.ran = <<"authenticate", "authorize">>) =>
       /\ req.status = 403
       /\ req.currentRole = users[req.user.id].role
       /\ users[req.user.id].role \notin RouteGate(req.route)

\* a demoted superadmin presents the token issued while superadmin and is denied
C4_Witness ==
  /\ req.pc = "done" /\ req.status = 403
  /\ req.header.token.role = "superadmin" /\ req.currentRole = "student"

\* the step in which authenticate handles the request
AuthenticateStep == req.pc = "authenticate" /\ req'.pc # "authenticate"

\* authenticate answered 401 with this message and called nothing
Rejected401(r, msg) ==
  /\ r.pc = "done" /\ r.status = 401 /\ r.error = msg
  /\ r.ran = <<"authenticate">> /\ r.user = NoUser

ValidlySigned(h) == h.kind = "jwt" /\ h.token.secret = JWT_SECRET

\* C5: authenticate answers each failure with its own 401 message and does not
\* call next(): no header or no 'Bearer ' prefix -> 'Authentication required';
\* bad signature -> 'Invalid token'; expired -> 'Token expired'; subject no
\* longer in the user store -> 'User not found'.
C5_DistinctFailures ==
  [][AuthenticateStep =>
       LET h == req'.header IN
       /\ h.kind \in {"none", "basic"} => Rejected401(req', "Authentication required")
       /\ (h.kind = "malformed" \/ (h.kind = "jwt" /\ h.token.secret # JWT_SECRET)) =>
            Rejected401(req', "Invalid token")
       /\ (ValidlySigned(h) /\ now >= h.token.exp) => Rejected401(req', "Token expired")
       /\ (ValidlySigned(h) /\ now < h.token.exp /\ h.token.userId \notin DOMAIN users) =>
            Rejected401(req', "User not found")]_vars

\* a token issued to a user who was deleted afterwards
C5_Witness ==
  /\ Rejected401(req, "User not found")
  /\ ValidlySigned(req.header) /\ req.header.token.userId < nextUserId

\* C6: on every gated route a request with an expired token is answered
\* 401 'Token expired' by authenticate, and neither the authorization gate nor
\* the handler runs for it.
C6_ExpiredStopsAtAuthenticate ==
  /\ [][(AuthenticateStep /\ ValidlySigned(req'.header) /\ now >= req'.header.token.exp) =>
          (req'.route \in GatedRoutes /\ Rejected401(req', "Token expired"))]_vars
  /\ [](req.error = "Token expired" =>
          (req.pc = "done" /\ "authorize" \notin {req.ran[i] : i \in DOMAIN req.ran}
             /\ "handler" \notin {req.ran[i] : i \in DOMAIN req.ran}))

C6_Witness ==
  /\ req.route = "PUT /lesson-plans/:id" /\ Rejected401(req, "Token expired")
  /\ ValidlySigned(req.header)

\* C7: a token issued at time T by register or login is accepted by
\* authenticate at every time before T + 7 days and rejected at every time
\* after T + 7 days; a token signed with another secret is rejected always.
C7_SevenDayLifetime ==
  [][(AuthenticateStep /\ req'.header.kind = "jwt") =>
       LET h == req'.header
           T == h.token.iat
       IN
       /\ (h.token \in tokens /\ now < T + 7) => req'.pc = "authorize"
       /\ (h.token \in tokens /\ now <= T + 6) => req'.user.id = h.token.userId
       /\ (h.token \in tokens /\ now > T + 7) => Rejected401(req', "Token expired")
       /\ h.token.secret # JWT_SECRET => Rejected401(req', "Invalid token")]_vars

C7_Witness ==
  /\ Rejected401(req, "Token expired")
  /\ req.header.token \in tokens /\ now = req.header.token.iat + 8

StagesRun(r) == {r.ran[i] : i \in DOMAIN r.ran}

\* C8: in the ownership checks of the lesson-plan view, update and delete
\* routes a caller whose role is admin or superadmin is always allowed.
C8_AdminsBypassOwnership ==
  (/\ req.pc = "done"
   /\ req.route \in {"GET /lesson-plans/:id", "PUT /lesson-plans/:id", "DELETE /lesson-plans/:id"}
   /\ req.user.role \in {"admin", "superadmin"}) =>
    req.status # 403

\* the step in which the handler of PUT or DELETE /lesson-plans/:id answers a
\* teacher about an existing plan
TeacherWritesPlan ==
  /\ req.pc = "handler" /\ req'.pc = "done"
  /\ req.route \in {"PUT /lesson-plans/:id", "DELETE /lesson-plans/:id"}
  /\ req.user.role = "teacher"
  /\ req'.id \in DOMAIN lessonPlans

\* the plan's recorded teacher is the caller: same email
Owns(user, plan) == teachers[plan.teacherId].email = user.email

\* C9: on PUT and DELETE /lesson-plans/:id a teacher who owns the plan is
\* allowed and the operation is applied; a teacher who does not own it is
\* answered 403 and the plan is left unchanged.
C9_TeacherOwnPlansOnly ==
  [][TeacherWritesPlan =>
       LET id == req'.id
           plan == lessonPlans[id]
       IN
       IF Owns(req.user, plan)
         THEN /\ req'.status = 200
              /\ req.route = "DELETE /lesson-plans/:id" => id \notin DOMAIN lessonPlans'
              /\ req.route = "PUT /lesson-plans/:id" =>
                   lessonPlans' = [lessonPlans EXCEPT ![id].status = req'.planStatus]
         ELSE /\ req'.status = 403
              /\ lessonPlans' = lessonPlans]_vars

\* a teacher was refused the update of another teacher's plan
C9_Witness ==
  /\ HandlerDone /\ req.route = "PUT /lesson-plans/:id" /\ req.status = 403
  /\ req.user.role = "teacher"
  /\ req.id \in DOMAIN lessonPlans /\ ~Owns(req.user, lessonPlans[req.id])

\* C10: on every mounted domain route the handler (and its persistence call)
\* runs only after authenticate has resolved the caller and an authorization
\* gate has let the request through.
C10_HandlerBehindGates ==
  (req.route \in Routes \ AuthRoutes /\ "handler" \in StagesRun(req)) =>
    (req.ran = <<"authenticate", "authorize", "handler">> /\ req.user # NoUser)

\* C11: 'superadmin' is a member of every entry of the permission table, so
\* for every action hasPermission('admin', a) implies
\* hasPermission('superadmin', a), and requirePermission lets a superadmin
\* caller through for every action of the table.
C11_SuperadminInEveryEntry ==
  /\ \A a \in DOMAIN PERMISSIONS : "superadmin" \in PERMISSIONS[a]
  /\ \A a \in PermissionInputs :
       hasPermission("admin", a) => hasPermission("superadmin", a)
  /\ (/\ req.route = "requirePermission"
      /\ req.user.role = "superadmin"
      /\ req.permission \in DOMAIN PERMISSIONS) => req.pc = "handler"

C11_Witness ==
  /\ req.route = "requirePermission" /\ req.user.role = "superadmin"
  /\ req.permission = "MANAGE_SCHOOLS" /\ req.pc = "handler"

\* the role-list gate of the request has run
AuthorizeRan == Len(req.ran) >= 2 /\ req.ran[2] = "authorize"

\* C12: for each of the four roles, the gate on GET /schools and
\* GET /schools/:id lets the caller through iff the role is in
\* PERMISSIONS.VIEW_SCHOOLS, and the gate on POST, PUT and DELETE /schools
\* iff the role is in PERMISSIONS.MANAGE_SCHOOLS.
C12_SchoolGatesFollowTable ==
  (AuthorizeRan /\ req.user.role \in ROLES) =>
    /\ req.route \in SchoolReadRoutes =>
         (req.status # 403 <=> req.user.role \in PERMISSIONS.VIEW_SCHOOLS)
    /\ req.route \in SchoolWriteRoutes =>
         (req.status # 403 <=> req.user.role \in PERMISSIONS.MANAGE_SCHOOLS)

\* C13: authorize(r1, ..., rn) calls the next handler iff the authenticated
\* caller's role is one of r1..rn; otherwise it answers 403 'Access forbidden'
\* with currentRole the caller's role and requiredRoles the whole list, and the
\* next handler is not called.
C13_AuthorizeDecidesByList ==
  (req.route = "authorize" /\ req.user # NoUser) =>
    /\ req.ran = <<"authorize">>
    /\ req.pc = "handler" <=> req.user.role \in req.allowedRoles
    /\ req.user.role \notin req.allowedRoles =>
         /\ req.pc = "done" /\ req.status = 403 /\ req.error = "Access forbidden"
         /\ req.currentRole = req.user.role
         /\ req.requiredRoles = req.allowedRoles

C13_Witness ==
  /\ req.route = "authorize" /\ req.user.role = "student"
  /\ req.allowedRoles = {"superadmin", "admin", "teacher"}
  /\ req.status = 403 /\ req.currentRole = "student"
  /\ req.requiredRoles = {"superadmin", "admin", "teacher"}

GateNames == {"authorize", "requirePermission", "authorizeOwnerOrAdmin", "canManageResource"}

\* C14 as stated: every 403 of a gate carries the roles required and the
\* caller's role.
C14_Every403CarriesRoles ==
  (req.route \in GateNames /\ req.status = 403) =>
    /\ req.requiredRoles # {}
    /\ req.currentRole = req.user.role

\* C14: a 403 of authorize carries the list of roles required and the caller's
\* role; a 403 of requirePermission carries the name of the permission and the
\* caller's role, and no list of roles; a 403 of authorizeOwnerOrAdmin or of
\* canManageResource carries neither.
C14_DenialBodies ==
  (req.route \in GateNames /\ req.status = 403) =>
    /\ req.error = "Access forbidden"
    /\ req.route = "authorize" =>
         /\ req.requiredRoles = req.allowedRoles
         /\ req.currentRole = req.user.role
    /\ req.route = "requirePermission" =>
         /\ req.requiredRoles = {}
         /\ req.currentRole = req.user.role
    /\ req.route \in {"authorizeOwnerOrAdmin", "canManageResource"} =>
         /\ req.requiredRoles = {}
         /\ req.currentRole = ""

C14_Witness ==
  /\ req.route = "requirePermission" /\ req.status = 403
  /\ req.permission = "MANAGE_SCHOOLS" /\ req.user.role = "teacher"
  /\ req.currentRole = "teacher" /\ req.requiredRoles = {}

\* C15: each of the four gates, run on a request with no caller identity
\* attached, answers 401 'Authentication required' and does not call the next
\* handler; such a request is never answered 403 and never let through.
C15_NoIdentityIs401 ==
  (req.route \in GateNames /\ req.user = NoUser) =>
    /\ req.pc = "done"
    /\ req.status = 401
    /\ req.error = "Authentication required"
    /\ req.ran = <<req.route>>

C15_Witness ==
  /\ req.route = "canManageResource" /\ req.user = NoUser
  /\ req.baseUrl = <<"api", "classes">> /\ req.id = 1
  /\ req.status = 401

\* the owner identifier authorizeOwnerOrAdmin reads: the path parameter when
\* one is supplied, the body field otherwise
OwnerIdRead == IF req.paramsUserId # <<>> THEN req.paramsUserId ELSE req.bodyUserId
CallerIsOwner == OwnerIdRead # <<>> /\ parseInt(OwnerIdRead) = req.user.id

C17_ListingHidesAdmins ==
  (req.route \in UserListRoutes /\ req.pc = "done" /\ req.user # NoUser) =>
    /\ req.user.role # "superadmin" =>
         \A u \in req.result : u.role \notin {"admin", "superadmin"}
    /\ req.user.role = "admin" =>
         \A u \in req.result : u.role \in {"teacher", "student"}
    /\ req.user.role = "teacher" =>
         \A u \in req.result : u.role = "student"
    /\ req.user.role = "student" =>
         /\ req.status = 403 /\ req.ran = <<"authenticate", "authorize">>
         /\ req.result = {}
    /\ \A u \in req.result : u.id \in DOMAIN users /\ users[u.id].role = u.role

\* an admin lists the users while a superadmin is stored, and the answer
\* leaves both of them out
C17_Witness ==
  /\ req.route \in UserListRoutes /\ HandlerDone /\ req.status = 200
  /\ req.user.role = "admin"
  /\ \E v \in DOMAIN users : users[v].role = "superadmin"
  /\ req.result = {}

\* C18: every stored user has one role, and it is one of superadmin, admin,
\* teacher, student; so every identity the authentication gate resolves
\* carries a role of this set.
C18_RolesFromClosedSet ==
  /\ \A u \in DOMAIN users : users[u].role \in ROLES
  /\ req.user # NoUser => req.user.role \in ROLES

\* C19: for one call through the retry wrapper, of a model method or of a
\* $-method, the client method is invoked at most 3 times and at most 2
\* disconnect/reconnect cycles are performed, whatever the client raises.
C19_BoundedRetries ==
  /\ call.invoked <= maxRetries
  /\ call.cycles <= maxRetries - 1
  /\ call.retryCount <= maxRetries - 1
  /\ call.cycles <= call.invoked

C19_Witness ==
  /\ call.method = "$" /\ call.pc = "thrown"
  /\ call.invoked = maxRetries /\ call.cycles = maxRetries - 1

GateCallers == {"authenticate", "canManageResource"}

\* C20 as stated: a gate's lookup reaches the persistence layer at most once.
C20_OneLookupPerGate ==
  call.caller \in GateCallers => call.invoked <= 1

\* C20: while one request is handled, the authentication gate issues at most
\* one query through the retry wrapper and canManageResource at most one,
\* authorize issues none, and no gate runs twice; the wrapper sends such a
\* query to the client up to 3 times when the client raises retryable errors.
C20_OneQueryPerGate ==
  /\ req.lookups <= 1
  /\ \A i, j \in 1..Len(req.ran) : req.ran[i] = req.ran[j] => i = j
  /\ call.caller \in GateCallers =>
       /\ req.pc = "lookup" /\ req.lookups = 1
       /\ call.invoked <= maxRetries
  /\ req.pc = "lookup" => call.caller \in GateCallers

C20_Witness ==
  /\ call.caller = "authenticate" /\ req.route = "GET /schools"
  /\ call.invoked = maxRetries /\ call.pc = "returned" /\ req.lookups = 1

\* user u holds role admin or superadmin after the step and did not hold that
\* role before it
BecomesPrivileged(u) ==
  /\ users'[u].role \in {"admin", "superadmin"}
  /\ u \notin DOMAIN users \/ users[u].role # users'[u].role

\* C21: a user record with role admin or superadmin comes into existence, by
\* creation or by role change, only in a request whose caller is authenticated
\* and has role superadmin.
C21_PrivilegedOnlyBySuperadmin ==
  [][\A u \in DOMAIN users' :
       BecomesPrivileged(u) => (req.user # NoUser /\ req.user.role = "superadmin")]_vars

\* the wrapper is about to invoke the operation again
ReInvoking == call.pc = "invoke" /\ call.invoked >= 1

\* C22 as stated: the operation is invoked again only after a retryable
\* error and after the client was disconnected, the backoff waited and the
\* client reconnected, in this order; any other error is rethrown unchanged
\* with no disconnect or reconnect.
C22_RetryAfterReconnect ==
  /\ ReInvoking =>
       /\ isRetryable(call.wrapper, call.method, call.error)
       /\ call.events = <<"disconnect", "wait", "connect">>
  /\ (call.pc = "thrown" /\ ~isRetryable(call.wrapper, call.method, call.error)) =>
       (call.result = "original" /\ call.events = <<>>)

\* C22: the operation is invoked again only after a retryable error and after
\* a disconnect was attempted, the backoff waited and a reconnect attempted, in
\* this order; the reconnect has succeeded, except that after the first
\* retryable error the operation is invoked again even when the reconnect
\* failed. An error of any other class is rethrown unchanged with no
\* disconnect or reconnect after it.
C22_RetryAfterCycle ==
  /\ ReInvoking =>
       /\ isRetryable(call.wrapper, call.method, call.error)
       /\ Len(call.events) = 3
       /\ call.events[1] \in {"disconnect", "disconnectFailed"}
       /\ call.events[2] = "wait"
       /\ call.events[3] \in {"connect", "connectFailed"}
       /\ call.events[3] = "connectFailed" => call.retryCount = 1
  /\ (call.pc = "thrown" /\ ~isRetryable(call.wrapper, call.method, call.error)) =>
       (call.result = "original" /\ call.events = <<>>)

C22_Witness ==
  /\ ReInvoking /\ call.retryCount = 1 /\ call.wrapper = "part_001"
  /\ call.events = <<"disconnect", "wait", "connectFailed">>

\* C23: a call through the current wrapper that has used up its retries has
\* waited 1s, 2s and 3s.
C23_WaitsOneTwoThree ==
  (/\ call.wrapper = "part_001" /\ call.pc = "thrown"
   /\ isRetryable(call.wrapper, call.method, call.error)
   /\ call.invoked = maxRetries) =>
     call.waits = <<backoffUnit, 2 * backoffUnit, 3 * backoffUnit>>

\* C26: a call through the wrapper settles, and settles by returning the value
\* of a successful attempt or by throwing; it never leaves the loop resolved
\* with no value.
C26_CallSettles ==
  /\ [](call.pc = "returned" => call.result = "value")
  /\ [](call.pc = "thrown" => call.result \in {"original", "enhanced"})
  /\ (call.pc = "invoke") ~> (call.pc \in {"returned", "thrown"})

C26_Witness ==
  /\ call.pc = "returned" /\ call.result = "value"
  /\ call.invoked = maxRetries /\ call.cycles = maxRetries - 1

\* C24: a teacher reads a lesson plan through GET /lesson-plans/:id only if
\* the plan's linked teacher is the caller; for a plan of another teacher the
\* answer is 403.
C24_TeacherReadsOwnPlansOnly ==
  (/\ HandlerDone /\ req.route = "GET /lesson-plans/:id"
   /\ req.user.role = "teacher"
   /\ req.id \in DOMAIN lessonPlans
   /\ ~Owns(req.user, lessonPlans[req.id])) => req.status = 403

\* C25: a teacher's POST /lesson-plans creates a plan only when the teacherId
\* of the request is the caller's own teacher record.
C25_TeacherCreatesOwnPlansOnly ==
  (/\ HandlerDone /\ req.route = "POST /lesson-plans"
   /\ req.user.role = "teacher"
   /\ req.status = 201) => teachers[req.id].email = req.user.email

\* a handler of the superadmin router runs for a superadmin caller
SuperadminHandlerStep ==
  /\ req.route \in SuperadminRoutes
  /\ req.pc = "handler" /\ req'.pc = "done"
  /\ req.user.role = "superadmin"

\* C27: a change-role, promote-admin, demote or delete request by an
\* authenticated superadmin leaves at least one user with role superadmin.
C27_SuperadminRemains ==
  [][(SuperadminHandlerStep /\ \E u \in DOMAIN users : users[u].role = "superadmin")
       => \E u \in DOMAIN users' : users'[u].role = "superadmin"]_vars

LoginDone ==
  /\ req.route = "POST /auth/login" /\ req.pc = "done" /\ req.email # <<>>

Registered(email) == findUserByEmail(normalizeEmail(email)) # {}

PasswordMatches(email, password) ==
  \E u \in findUserByEmail(normalizeEmail(email)) : compare(password, users[u].password)

\* what the client is sent
LoginResponse == [status |-> req.status, error |-> req.error, token |-> req.token]

RegisterAnswered(p) ==
  /\ ops'[p] # ops[p]
  /\ ops'[p].fn = "register" /\ ops'[p].pc = "done"

\* C29: no two stored users have emails equal after trimming and
\* lower-casing; a register request whose normalized email is already stored
\* is answered 400, creates no user and issues no token.
C29_EmailsUnique ==
  /\ [](\A u, v \in DOMAIN users :
          u # v => normalizeEmail(users[u].email) # normalizeEmail(users[v].email))
  /\ [][\A p \in Procs :
          (RegisterAnswered(p) /\ Registered(ops'[p].email)) =>
             /\ ops'[p].status = 400 /\ ops'[p].token = NoToken
             /\ users' = users /\ tokens' = tokens]_vars

\* two overlapping requests for one address: the second create is refused
C29_Witness ==
  \E p, q \in Procs :
    /\ ops[p].fn = "register" /\ ops[p].status = 201 /\ ops[p].email = <<"a">>
    /\ ops[q].fn = "register" /\ ops[q].error = "Email already exists"
    /\ ops[q].email = <<"A", " ">>

\* an addEnrollment of client p ends in this step
AddEnrollmentEnds(p) ==
  /\ ops[p].fn = "addEnrollment" /\ ops[p].pc = "create"
  /\ ops'[p].pc = "done"

\* C28: every stored enrollment references a student and a class that exist,
\* and no two stored enrollments have the same (studentId, classId); an
\* addEnrollment that would break either condition throws and stores nothing.
C28_EnrollmentsConsistent ==
  /\ [](\A e \in store.enrollments :
          e.studentId \in store.students /\ e.classId \in store.classIds)
  /\ [](\A e, f \in store.enrollments :
          (e.studentId = f.studentId /\ e.classId = f.classId) => e = f)
  /\ [][\A p \in Procs :
          (/\ AddEnrollmentEnds(p)
           /\ \/ ops[p].studentId \notin store.students
              \/ ops[p].classId \notin store.classIds
              \/ enrollmentsOf(store, ops[p].studentId, ops[p].classId) # {}) =>
             (ops'[p].error # "" /\ store' = store)]_vars

\* two overlapping addEnrollment calls for one pair: the second is refused
C28_Witness ==
  \E p, q \in Procs :
    /\ p # q
    /\ ops[p].fn = "addEnrollment" /\ ops[p].pc = "done" /\ ops[p].error = ""
    /\ ops[q].error = "Student is already enrolled in this class"
    /\ Cardinality(store.enrollments) = 1

====
